---- MODULE Spec2Model ----
(***************************************************************************)
(* Model of the push dispatch path of tolki-app/gorush:                     *)
(* router.pushHandler, router.handleNotification and                        *)
(* router.markFailedNotification (src/router/server.go).                    *)
(*                                                                         *)
(* One HTTP push request is followed from binding to its response. The      *)
(* queue library's answer to a submission (accepted / rejected) and the     *)
(* delivery backend's answer to a send are inputs of the model.             *)
(***************************************************************************)
EXTENDS Integers, Sequences, FiniteSets, Bags, TLC

\* ------------------------------------------------------------------ bounds

\* cfg.Core.MaxNotification of the modelled configuration.
MaxNotification == 2

\* Longest token list of a notification in the modelled requests.
MaxTokens == 1

\* ------------------------------------------------------------------ data

TokenNames == <<"a", "b", "c", "d">>

\* core.PlatFormIos, core.PlatFormAndroid, core.PlatFormHuawei and one value
\* that is none of the three (the switch of handleNotification has no default).
SwitchedPlatforms == {"ios", "android", "huawei"}

Platforms == SwitchedPlatforms \cup {"other"}

Prefix(k) == SubSeq(TokenNames, 1, k)

\* notify.PushNotification, as far as the dispatch path reads it: ID, Tokens,
\* Platform and To (TRUE when To # "").
Notifications(i) ==
    { [id |-> i, platform |-> p, tokens |-> Prefix(k), to |-> t] :
        p \in Platforms, k \in 0..MaxTokens, t \in BOOLEAN }

\* notify.RequestPush bodies: the notification at position i carries ID i.
RequestsOfLen(k) ==
    { r \in [1..k -> UNION { Notifications(i) : i \in 1..k }] :
        \A i \in 1..k : r[i].id = i }

\* Bodies over the limit: pushHandler reads only their length (line 80), so
\* one notification repeated MaxNotification + 1 times stands for them.
OverLimitRequests ==
    { [i \in 1..(MaxNotification + 1) |-> [n EXCEPT !.id = i]] :
        n \in Notifications(1) }

Requests ==
    UNION { RequestsOfLen(k) : k \in 0..MaxNotification } \cup OverLimitRequests

\* What form holds when the body cannot be bound: nothing, or the part that
\* was decoded before the error.
UnboundRequests == RequestsOfLen(0) \cup RequestsOfLen(1)

Indexes == 1..(MaxNotification + 1)

\* One deleteUnregisteredToken goroutine per position and token.
Reclaimers == Indexes \X (1..MaxTokens)

\* Line 361: the attempts of deleteUnregisteredToken.
ReclaimAttempts == 3

CapacityReason == "max capacity reached"

VARIABLES
    cfgSync,          \* cfg.Core.Sync (shared configuration, mutated at line 263)
    configuredSync,   \* history: cfg.Core.Sync as configured at start-up
    engineLocal,      \* core.IsLocalQueue(core.Queue(cfg.Queue.Engine))
    enabled,          \* platforms whose cfg.<Platform>.Enabled is true
    req,              \* form.Notifications of the request
    bindOk,           \* c.ShouldBindWith accepts the body (line 66)
    hpc,              \* position of the handler goroutine
    newNotification,  \* filtered list of handleNotification
    idx,              \* position of the submission loop in newNotification
    count,            \* count of handleNotification
    logs,             \* logs of handleNotification (shared with the tasks)
    wg,               \* counter of the sync.WaitGroup
    registered,       \* history: wg.Add(1) calls per position
    released,         \* history: wg.Done() calls per position
    submitted,        \* history: positions handed to q.QueueTask / q.Queue, in order
    rejected,         \* history: positions whose submission returned an error
    tstate,           \* position of the task closure queued for each position
    outcome,          \* history: what the send of each task returned
    tresult,          \* history: what the closure of each task returned
    ttmp,             \* logs as read by a task that is appending
    tresp,            \* resp.Logs held by a task
    produced,         \* history: bag of the entries appended to logs by anyone
    reclaims,         \* history: bag of the tokens handed to "go deleteUnregisteredToken"
    rstate,           \* position of each deleteUnregisteredToken goroutine
    rattempts,        \* client.Do calls made by each of them
    rlast,            \* history: how the last step of each of them ended
    watcher,          \* position of the disconnect watcher goroutine
    ctxCancelled,     \* ctx of line 87 has been cancelled
    statTotal,        \* status.StatStorage total count
    statCalls,        \* history: number of AddTotalCount calls
    respCode,         \* HTTP status written (0: none yet)
    respCounts,       \* "counts" of the response body
    respLogs          \* "logs" of the response body

vars == << cfgSync, configuredSync, engineLocal, enabled, req, bindOk, hpc,
           newNotification, idx, count, logs, wg, registered, released,
           submitted, rejected, tstate, outcome, tresult, ttmp, tresp,
           produced, reclaims, rstate, rattempts, rlast, watcher,
           ctxCancelled, statTotal, statCalls, respCode, respCounts,
           respLogs >>

cfgVars == << configuredSync, engineLocal, enabled, req, bindOk >>

taskVars == << tstate, outcome, tresult, ttmp, tresp >>

statVars == << statTotal, statCalls >>

recVars == << rstate, rattempts, rlast >>

respVars == << respCode, respCounts, respLogs >>

\* ------------------------------------------------------------------ helpers

\* The bag of the elements of a sequence.
BagOfSeq(s) ==
    [e \in { s[i] : i \in DOMAIN s } |-> Cardinality({ i \in DOMAIN s : s[i] = e })]

\* One logx.LogPushEntry.
Entry(n, token, status, reason) ==
    [id |-> n.id, token |-> token, status |-> status, reason |-> reason]

\* markFailedNotification: one failed entry per token, in token order.
markFailedNotification(n, reason) ==
    [i \in 1..Len(n.tokens) |-> Entry(n, n.tokens[i], "failed", reason)]

\* A dispatch that leaves cfg.Core.Sync as configured.
DowngradeMissing(sync, local) == sync

\* Lines 262-264: the value cfg.Core.Sync has after the downgrade.
Downgrade(sync, local) == IF sync /\ ~local THEN FALSE ELSE sync

\* A switch without its Huawei case.
KeepIgnoresHuawei(n, en) ==
    CASE n.platform = "ios" -> "ios" \in en
      [] n.platform = "android" -> "android" \in en
      [] OTHER -> TRUE

\* A switch whose default drops the notification.
KeepKnownOnly(n, en) ==
    CASE n.platform = "ios" -> "ios" \in en
      [] n.platform = "android" -> "android" \in en
      [] n.platform = "huawei" -> "huawei" \in en
      [] OTHER -> FALSE

\* Lines 268-281: the switch keeps a notification unless its platform is one
\* of the three switched ones and that platform is disabled.
Keep(n, en) ==
    CASE n.platform = "ios" -> "ios" \in en
      [] n.platform = "android" -> "android" \in en
      [] n.platform = "huawei" -> "huawei" \in en
      [] OTHER -> TRUE

\* Lines 266-283: newNotification.
RECURSIVE FilterPlatform(_, _)
FilterPlatform(r, en) ==
    IF Len(r) = 0 THEN << >>
    ELSE (IF Keep(Head(r), en) THEN << Head(r) >> ELSE << >>)
         \o FilterPlatform(Tail(r), en)

\* A count that forgets the topic.
VolumeTokensOnly(n) == Len(n.tokens)

\* Lines 335-339: what one notification adds to count.
Volume(n) == Len(n.tokens) + (IF n.to THEN 1 ELSE 0)

\* resp.Logs of notify.SendNotification: one entry per token, in token order.
SendLogs(n, out) ==
    [i \in 1..Len(n.tokens) |->
        Entry(n, n.tokens[i],
              IF out = "ok" THEN "success" ELSE "failed",
              IF out = "ok" THEN "" ELSE out)]

Outcomes == {"ok", "Unregistered", "error"}

\* A test that takes every error for an unregistered token.
IsAnyError(out) == out # "ok"

\* strings.Contains(err.Error(), "Unregistered")
IsUnregistered(out) == out = "Unregistered"

\* A body with no more notifications than the limit but one is refused.
TooManyOffByOne(r) == Len(r) >= MaxNotification

\* Line 80: the body has more notifications than cfg.Core.MaxNotification.
TooMany(r) == Len(r) > MaxNotification

\* A sink that counts dispatches instead of notifications.
StatAfterPerDispatch(total, c) == total + 1

\* Line 346: status.StatStorage.AddTotalCount(int64(count)).
StatAfter(total, c) == total + c

\* ------------------------------------------------------------------ Init

\* Nothing has run yet.
InitRun ==
    /\ rstate = [r \in Reclaimers |-> "none"]
    /\ rattempts = [r \in Reclaimers |-> 0]
    /\ rlast = [r \in Reclaimers |-> "none"]
    /\ hpc = "bind"
    /\ newNotification = << >>
    /\ idx = 1
    /\ count = 0
    /\ logs = << >>
    /\ wg = 0
    /\ registered = [i \in Indexes |-> 0]
    /\ released = [i \in Indexes |-> 0]
    /\ submitted = << >>
    /\ rejected = {}
    /\ tstate = [i \in Indexes |-> "none"]
    /\ outcome = [i \in Indexes |-> "none"]
    /\ tresult = [i \in Indexes |-> "none"]
    /\ ttmp = [i \in Indexes |-> << >>]
    /\ tresp = [i \in Indexes |-> << >>]
    /\ produced = EmptyBag
    /\ reclaims = EmptyBag
    /\ watcher = "none"
    /\ ctxCancelled = FALSE
    /\ statTotal = 0
    /\ statCalls = 0
    /\ respCode = 0
    /\ respCounts = 0
    /\ respLogs = << >>

Init ==
    /\ configuredSync \in BOOLEAN
    /\ cfgSync = configuredSync
    /\ engineLocal \in BOOLEAN
    /\ enabled \in SUBSET SwitchedPlatforms
    /\ bindOk \in BOOLEAN
    /\ req \in (IF bindOk THEN Requests ELSE UnboundRequests)
    /\ InitRun

\* The initial states with every platform enabled and a bound body of iOS
\* notifications.
ReclaimInit ==
    /\ configuredSync \in BOOLEAN
    /\ cfgSync = configuredSync
    /\ engineLocal \in BOOLEAN
    /\ enabled = SwitchedPlatforms
    /\ bindOk = TRUE
    /\ req \in { r \in Requests : \A j \in 1..Len(r) : r[j].platform = "ios" }
    /\ InitRun

\* ------------------------------------------------------------------ pushHandler

\* Lines 66-85: bodies that cannot be bound, empty bodies and over-limit
\* bodies are answered 400 before dispatch.
PushHandlerReject ==
    /\ hpc = "bind"
    /\ ~bindOk \/ Len(req) = 0 \/ TooMany(req)
    /\ hpc' = "aborted"
    /\ respCode' = 400
    /\ UNCHANGED << cfgSync, cfgVars, newNotification, idx, count, logs, wg,
                    registered, released, submitted, rejected, taskVars,
                    produced, reclaims, recVars, watcher, ctxCancelled, statVars,
                    respCounts, respLogs >>

\* Lines 66-99: a bound body within the limits passes; the watcher goroutine
\* starts.
PushHandlerAccept ==
    /\ hpc = "bind"
    /\ bindOk
    /\ Len(req) # 0
    /\ ~TooMany(req)
    /\ hpc' = "dispatch"
    /\ watcher' = "waiting"
    /\ UNCHANGED << cfgSync, cfgVars, newNotification, idx, count, logs, wg,
                    registered, released, submitted, rejected, taskVars,
                    produced, reclaims, recVars, ctxCancelled, statVars, respVars >>

\* Lines 88-99: the request's context is done (the client went away, or the
\* request ended); the watcher calls cancel() when cfg.Core.Sync is set.
WatcherCancel ==
    /\ watcher = "waiting"
    /\ watcher' = "exited"
    /\ ctxCancelled' = (ctxCancelled \/ cfgSync)
    /\ UNCHANGED << cfgSync, cfgVars, hpc, newNotification, idx, count, logs,
                    wg, registered, released, submitted, rejected, taskVars,
                    produced, reclaims, recVars, statVars, respVars >>

\* ------------------------------------------------------------------ handleNotification

\* Lines 258-285: the downgrade of cfg.Core.Sync and the platform filter.
HandleNotificationStart ==
    /\ hpc = "dispatch"
    /\ cfgSync' = Downgrade(cfgSync, engineLocal)
    /\ newNotification' = FilterPlatform(req, enabled)
    /\ count' = 0
    /\ logs' = << >>
    /\ wg' = 0
    /\ idx' = 1
    /\ hpc' = "loop"
    /\ UNCHANGED << cfgVars, registered, released, submitted, rejected,
                    taskVars, produced, reclaims, recVars, watcher, ctxCancelled,
                    statVars, respVars >>

InLoop == hpc = "loop" /\ idx <= Len(newNotification)

\* Lines 287-289: wg.Add(1) when cfg.Core.Sync.
AfterAdd(w, sync) == IF sync THEN w + 1 ELSE w

Adds(sync) == IF sync THEN 1 ELSE 0

\* Line 291: the branch that queues a closure.
UsesQueueTask(sync, local) == local /\ sync

\* Lines 286-327, 335-340: an iteration whose q.QueueTask accepts the closure.
SubmitTaskAccepted ==
    /\ InLoop
    /\ UsesQueueTask(cfgSync, engineLocal)
    /\ wg' = AfterAdd(wg, cfgSync)
    /\ registered' = [registered EXCEPT ![idx] = @ + Adds(cfgSync)]
    /\ submitted' = Append(submitted, idx)
    /\ tstate' = [tstate EXCEPT ![idx] = "queued"]
    /\ count' = count + Volume(newNotification[idx])
    /\ idx' = idx + 1
    /\ UNCHANGED << cfgSync, cfgVars, hpc, newNotification, logs, released,
                    rejected, outcome, tresult, ttmp, tresp, produced,
                    reclaims, recVars,
                    watcher, ctxCancelled, statVars, respVars >>

\* Lines 286-327, 335-340: an iteration whose q.QueueTask returns an error:
\* the error is logged (line 325) and nothing else is done.
SubmitTaskRejected ==
    /\ InLoop
    /\ UsesQueueTask(cfgSync, engineLocal)
    /\ wg' = AfterAdd(wg, cfgSync)
    /\ registered' = [registered EXCEPT ![idx] = @ + Adds(cfgSync)]
    /\ submitted' = Append(submitted, idx)
    /\ rejected' = rejected \cup {idx}
    /\ count' = count + Volume(newNotification[idx])
    /\ idx' = idx + 1
    /\ UNCHANGED << cfgSync, cfgVars, hpc, newNotification, logs, released,
                    taskVars, produced, reclaims, recVars, watcher, ctxCancelled,
                    statVars, respVars >>

\* Lines 286-291, 328, 335-340: an iteration whose q.Queue accepts the
\* notification; the queue's own workers deliver it later.
SubmitQueueAccepted ==
    /\ InLoop
    /\ ~UsesQueueTask(cfgSync, engineLocal)
    /\ wg' = AfterAdd(wg, cfgSync)
    /\ registered' = [registered EXCEPT ![idx] = @ + Adds(cfgSync)]
    /\ submitted' = Append(submitted, idx)
    /\ count' = count + Volume(newNotification[idx])
    /\ idx' = idx + 1
    /\ UNCHANGED << cfgSync, cfgVars, hpc, newNotification, logs, released,
                    rejected, taskVars, produced, reclaims, recVars, watcher,
                    ctxCancelled, statVars, respVars >>

\* Lines 286-291, 328-340: an iteration whose q.Queue returns an error: the
\* failed entries are appended and wg.Done() is called; a WaitGroup counter
\* that goes negative panics, and gin.Recovery (line 209) answers 500.
SubmitQueueRejected ==
    /\ InLoop
    /\ ~UsesQueueTask(cfgSync, engineLocal)
    /\ LET n == newNotification[idx]
           resp == markFailedNotification(n, CapacityReason)
           w == AfterAdd(wg, cfgSync) - 1
       IN /\ registered' = [registered EXCEPT ![idx] = @ + Adds(cfgSync)]
          /\ submitted' = Append(submitted, idx)
          /\ rejected' = rejected \cup {idx}
          /\ logs' = logs \o resp
          /\ produced' = produced (+) BagOfSeq(resp)
          /\ released' = [released EXCEPT ![idx] = @ + 1]
          /\ wg' = w
          /\ IF w < 0
             THEN /\ hpc' = "panicked"
                  /\ respCode' = 500
                  /\ UNCHANGED << count, idx >>
             ELSE /\ count' = count + Volume(n)
                  /\ idx' = idx + 1
                  /\ UNCHANGED << hpc, respCode >>
    /\ UNCHANGED << cfgSync, cfgVars, newNotification, taskVars, reclaims, recVars,
                    watcher, ctxCancelled, statVars, respCounts, respLogs >>

\* Lines 342-348 and 103-107: wg.Wait() when cfg.Core.Sync, AddTotalCount and
\* the 200 response with counts and logs.
WaitAndReturn ==
    /\ hpc = "loop"
    /\ idx > Len(newNotification)
    /\ cfgSync => wg = 0
    /\ statTotal' = StatAfter(statTotal, count)
    /\ statCalls' = statCalls + 1
    /\ respCode' = 200
    /\ respCounts' = count
    /\ respLogs' = logs
    /\ hpc' = "done"
    /\ UNCHANGED << cfgSync, cfgVars, newNotification, idx, count, logs, wg,
                    registered, released, submitted, rejected, taskVars,
                    produced, reclaims, recVars, watcher, ctxCancelled >>

\* ------------------------------------------------------------------ the queued closure

\* Lines 294-319: a worker runs the closure; the send returns. A generic
\* error returns at line 317 and the deferred wg.Done() runs; otherwise the
\* reclaims are started for an "Unregistered" error and the append of line
\* 321 reads logs.
TaskSend(i, out) ==
    /\ tstate[i] = "queued"
    /\ outcome' = [outcome EXCEPT ![i] = out]
    /\ IF out # "ok" /\ ~IsUnregistered(out)
       THEN /\ tstate' = [tstate EXCEPT ![i] = "done"]
            /\ tresult' = [tresult EXCEPT ![i] = "err"]
            /\ wg' = wg - 1
            /\ released' = [released EXCEPT ![i] = @ + 1]
            /\ UNCHANGED << ttmp, tresp, reclaims, recVars >>
       ELSE /\ tstate' = [tstate EXCEPT ![i] = "appending"]
            /\ UNCHANGED tresult
            /\ ttmp' = [ttmp EXCEPT ![i] = logs]
            /\ tresp' = [tresp EXCEPT ![i] = SendLogs(newNotification[i], out)]
            /\ reclaims' = IF out # "ok" /\ IsUnregistered(out)
                           THEN reclaims (+) BagOfSeq(newNotification[i].tokens)
                           ELSE reclaims
            /\ rstate' = IF out # "ok" /\ IsUnregistered(out)
                         THEN [r \in Reclaimers |->
                                 IF r[1] = i /\ r[2] <= Len(newNotification[i].tokens)
                                 THEN "running" ELSE rstate[r]]
                         ELSE rstate
            /\ UNCHANGED << rattempts, rlast >>
            /\ UNCHANGED << wg, released >>
    /\ UNCHANGED << cfgSync, cfgVars, hpc, newNotification, idx, count, logs,
                    registered, submitted, rejected, produced, watcher,
                    ctxCancelled, statVars, respVars >>

\* A closure that calls deleteUnregisteredToken without "go".
ReclaimsAwaitedAll(i) == { r \in Reclaimers : r[1] = i /\ rstate[r] # "none" }

\* Line 314: the reclaims are started with "go"; the closure goes on to line
\* 321 without waiting for any of them.
ReclaimsAwaited(i) == {}

\* Lines 321-323 and 294: the append writes logs from what it read, without
\* any lock; the closure returns nil and the deferred wg.Done() runs.
TaskAppend(i) ==
    /\ tstate[i] = "appending"
    /\ \A r \in ReclaimsAwaited(i) : rstate[r] = "done"
    /\ logs' = ttmp[i] \o tresp[i]
    /\ produced' = produced (+) BagOfSeq(tresp[i])
    /\ wg' = wg - 1
    /\ released' = [released EXCEPT ![i] = @ + 1]
    /\ tstate' = [tstate EXCEPT ![i] = "done"]
    /\ tresult' = [tresult EXCEPT ![i] = "nil"]
    /\ ttmp' = [ttmp EXCEPT ![i] = << >>]
    /\ UNCHANGED << cfgSync, cfgVars, hpc, newNotification, idx, count,
                    registered, submitted, rejected, outcome, tresp, reclaims, recVars,
                    watcher, ctxCancelled, statVars, respVars >>

\* ------------------------------------------------------------------ deleteUnregisteredToken

\* A loop that runs once more.
LoopContinuesOnceMore(attempts) == attempts <= ReclaimAttempts

\* Line 361: the loop condition attempts < 3.
LoopContinues(attempts) == attempts < ReclaimAttempts

ReclaimResults == {"neterr", "status", "ok"}

\* Lines 354-358: http.NewRequest fails (the URL made of the service URL and
\* the token does not parse); the error is logged and the function returns.
ReclaimBadRequest(r) ==
    /\ rstate[r] = "running"
    /\ rattempts[r] = 0
    /\ rstate' = [rstate EXCEPT ![r] = "done"]
    /\ rlast' = [rlast EXCEPT ![r] = "badreq"]
    /\ UNCHANGED << cfgSync, cfgVars, hpc, newNotification, idx, count, logs,
                    wg, registered, released, submitted, rejected, taskVars,
                    produced, reclaims, rattempts, watcher, ctxCancelled,
                    statVars, respVars >>

\* Lines 361-372: one iteration of the loop: client.Do returns a network
\* error (sleep, continue), a status other than 200 (sleep) or 200 (break).
ReclaimAttempt(r, res) ==
    /\ rstate[r] = "running"
    /\ rattempts' = [rattempts EXCEPT ![r] = @ + 1]
    /\ rlast' = [rlast EXCEPT ![r] = IF res = "ok" THEN "ok" ELSE "fail"]
    /\ rstate' = [rstate EXCEPT ![r] =
                     IF res # "ok" /\ LoopContinues(rattempts[r] + 1)
                     THEN "running" ELSE "done"]
    /\ UNCHANGED << cfgSync, cfgVars, hpc, newNotification, idx, count, logs,
                    wg, registered, released, submitted, rejected, taskVars,
                    produced, reclaims, watcher, ctxCancelled, statVars,
                    respVars >>

\* ------------------------------------------------------------------ specifications

Submit ==
    \/ SubmitTaskAccepted
    \/ SubmitTaskRejected
    \/ SubmitQueueAccepted
    \/ SubmitQueueRejected

Handler ==
    \/ PushHandlerReject
    \/ PushHandlerAccept
    \/ HandleNotificationStart
    \/ Submit
    \/ WaitAndReturn

Send == \E i \in Indexes, out \in Outcomes : TaskSend(i, out)

AppendLogs == \E i \in Indexes : TaskAppend(i)

Next ==
    \/ PushHandlerReject
    \/ PushHandlerAccept
    \/ WatcherCancel
    \/ HandleNotificationStart
    \/ SubmitTaskAccepted
    \/ SubmitTaskRejected
    \/ SubmitQueueAccepted
    \/ SubmitQueueRejected
    \/ WaitAndReturn
    \/ Send
    \/ AppendLogs

Spec == Init /\ [][Next]_vars

BadRequest == \E r \in Reclaimers : ReclaimBadRequest(r)

Attempt == \E r \in Reclaimers, res \in ReclaimResults : ReclaimAttempt(r, res)

\* The dispatch together with the goroutines it leaves behind.
ReclaimNext ==
    \/ Next
    \/ BadRequest
    \/ Attempt

ReclaimSpec == ReclaimInit /\ [][ReclaimNext]_vars

\* The handler goroutine and a worker that holds a send result keep running
\* (the Go scheduler starves no runnable goroutine). Nothing is assumed of
\* the backend (a send may never return) nor of the client (it may stay).
FairSpec ==
    /\ Spec
    /\ WF_vars(Handler)
    /\ WF_vars(AppendLogs)

\* ------------------------------------------------------------------ shared predicates

\* cfg.Core.Sync was configured and the engine is not local.
Downgraded == configuredSync /\ ~engineLocal

\* handleNotification has left its submission loop normally.
LoopFinished == hpc = "loop" /\ idx > Len(newNotification)

\* The dispatch runs in sync mode on a local engine.
SyncLocal == hpc \in {"loop", "done"} /\ cfgSync /\ engineLocal

Accepted == { i \in Indexes : tstate[i] # "none" }

\* The outcome of position i is in: its submission was rejected, or its task
\* has returned.
Settled(i) == i \in rejected \/ tstate[i] = "done"

Positions == 1..Len(newNotification)

\* The entries of logs that report a capacity rejection of position i.
CapacityEntries(i) ==
    SelectSeq(logs, LAMBDA e : e.id = newNotification[i].id /\ e.reason = CapacityReason)

\* ------------------------------------------------------------------ claims

\* C1: every unit of the barrier is released exactly as often as it was
\* registered, whatever the outcome: releases never exceed registrations,
\* the counter is never negative, a settled notification has as many
\* releases as registrations (one in sync mode), and once every outcome is
\* in the counter is zero.
C1_ExactlyOnceRelease ==
    /\ wg >= 0
    /\ \A i \in Indexes : released[i] <= registered[i]
    /\ hpc \in {"loop", "done", "panicked"} =>
          \A i \in Positions :
              Settled(i) =>
                  /\ released[i] = registered[i]
                  /\ cfgSync => registered[i] = 1
    /\ (LoopFinished /\ \A i \in Positions : Settled(i) \/ ~cfgSync) => wg = 0

\* C2: in sync mode on a local engine, a notification whose submission the
\* queue rejects has its barrier unit released at once, so the barrier is
\* open as soon as every accepted task has completed.
C2_RejectedUnitReleased ==
    SyncLocal =>
        /\ \A i \in rejected : released[i] = registered[i]
        /\ (LoopFinished /\ \A i \in Accepted : tstate[i] = "done") => wg = 0

\* C3: in an asynchronous dispatch a rejection by q.Queue leaves the dispatch
\* completing normally, and the logs it returns hold the rejected
\* notification's failed entries with reason "max capacity reached".
C3_AsyncRejectionLogged ==
    (hpc \in {"loop", "done", "panicked"} /\ ~cfgSync /\ rejected # {}) =>
        /\ hpc # "panicked"
        /\ hpc = "done" =>
              \A i \in rejected :
                  \A k \in 1..Len(newNotification[i].tokens) :
                      \E j \in 1..Len(respLogs) :
                          respLogs[j] = Entry(newNotification[i],
                                              newNotification[i].tokens[k],
                                              "failed", CapacityReason)

\* C4: a capacity-rejected notification has exactly one failed entry per
\* token, in token order, plus one when its topic is set, each with reason
\* "max capacity reached".
C4_CapacityLogShape ==
    hpc \in {"loop", "done", "panicked"} =>
        \A i \in rejected :
            LET n == newNotification[i]
                es == CapacityEntries(i)
            IN /\ Len(es) = Len(n.tokens) + (IF n.to THEN 1 ELSE 0)
               /\ \A k \in 1..Len(es) : es[k].status = "failed"
               /\ \A k \in 1..Len(n.tokens) :
                      k <= Len(es) /\ es[k].token = n.tokens[k]

\* C5: in a sync dispatch on a local engine whose submissions were all
\* accepted, once the cancellation has fired the dispatch returns, even when
\* an accepted task never completes.
C5_DisconnectForcedRelease ==
    []((SyncLocal /\ ctxCancelled /\ LoopFinished /\ rejected = {})
         => <>(hpc = "done"))

\* C6: the logs a dispatch returns are, as a multiset, exactly the entries
\* that were appended: none lost, none duplicated.
C6_NoEntryLostOrDuplicated ==
    hpc = "done" => BagOfSeq(respLogs) = produced

\* C7: a sync dispatch on a local engine returns only after every task it
\* submitted successfully has finished, and once they all have finished it
\* returns.
C7_SyncCompletionBarrier ==
    /\ []((SyncLocal /\ hpc = "done") => \A i \in Accepted : tstate[i] = "done")
    /\ []((SyncLocal /\ LoopFinished /\ \A i \in Accepted : tstate[i] = "done")
            => <>(hpc = "done"))

\* C8: when sync is configured with a non-local engine the dispatch registers
\* nothing on the barrier, never waits on it, and returns once all surviving
\* notifications have been submitted, with no completion at all.
C8_SyncDowngrade ==
    /\ []((Downgraded /\ hpc \in {"loop", "done", "panicked"}) =>
            /\ ~cfgSync
            /\ \A i \in Indexes : registered[i] = 0
            /\ \A i \in Indexes : tstate[i] = "none")
    /\ []((Downgraded /\ LoopFinished) => <>(hpc = "done"))

\* C8 witness: a downgraded dispatch has returned after submitting its
\* notifications, none of which has reported a completion.
C8_Witness ==
    /\ Downgraded
    /\ hpc = "done"
    /\ Len(submitted) = MaxNotification
    /\ \A i \in Indexes : tstate[i] = "none" /\ released[i] = 0

\* C9: a request that passed validation is never answered with an error: the
\* dispatch does not panic, and its caller gets the 200 response.
C9_NoHardErrorAfterValidation ==
    hpc \in {"dispatch", "loop", "done", "panicked"} =>
        /\ hpc # "panicked"
        /\ respCode \in {0, 200}
        /\ hpc = "done" => (respCode = 200 /\ respCounts = count /\ respLogs = logs)

\* C10: whatever happens to earlier notifications of the batch, every
\* surviving notification is submitted exactly once, in request order.
C10_BatchNeverAborted ==
    /\ submitted = [i \in 1..Len(submitted) |-> i]
    /\ hpc \in {"done", "panicked"} => Len(submitted) = Len(newNotification)

\* ------------------------------------------------------------------ more shared predicates

\* handleNotification has filtered the request.
Started == hpc \in {"loop", "done", "panicked"}

\* The platforms that are switched on and disabled.
Disabled == SwitchedPlatforms \ enabled

\* Tokens plus topic of a sequence of notifications.
RECURSIVE AttemptedVolume(_)
AttemptedVolume(ns) ==
    IF ns = << >> THEN 0
    ELSE Len(Head(ns).tokens) + (IF Head(ns).to THEN 1 ELSE 0)
         + AttemptedVolume(Tail(ns))

\* The IDs of the notifications of the request on a disabled platform.
DroppedIds == { req[j].id : j \in { j \in 1..Len(req) : req[j].platform \in Disabled } }

\* The tokens a request can carry.
TokenSet == { TokenNames[k] : k \in 1..Len(TokenNames) }

\* ------------------------------------------------------------------ claims C11..C20

\* C11: of the N notifications of a request, the k on a disabled platform
\* are dropped and the other N-k are kept in their order; when the dispatch
\* returns exactly those were submitted; a dropped notification is never
\* submitted, has no log entry and adds nothing to count.
C11_PlatformFilter ==
    Started =>
        LET expected == SelectSeq(req, LAMBDA n : n.platform \notin Disabled)
            k == Cardinality({ j \in 1..Len(req) : req[j].platform \in Disabled })
        IN /\ newNotification = expected
           /\ Len(newNotification) = Len(req) - k
           /\ \A j \in 1..Len(submitted) :
                  newNotification[submitted[j]].id \notin DroppedIds
           /\ hpc = "done" => Len(submitted) = Len(req) - k
           /\ \A j \in 1..Len(logs) : logs[j].id \notin DroppedIds
           /\ \A e \in BagToSet(produced) : e.id \notin DroppedIds
           /\ count <= AttemptedVolume(expected)
           /\ hpc = "done" => respCounts = AttemptedVolume(expected)

\* C11 witness: a dispatch has returned for a request of which one
\* notification was dropped and one was kept.
C11_Witness ==
    /\ hpc = "done"
    /\ DroppedIds # {}
    /\ Len(newNotification) >= 1
    /\ Len(submitted) = Len(newNotification)

\* C12: count is the attempted volume: after each iteration it is the sum
\* of tokens plus topic over the notifications handled so far, whether they
\* were accepted or rejected, and the count returned is that sum over all
\* surviving notifications, whatever the sends returned.
C12_CountIsAttemptedVolume ==
    /\ hpc = "loop" => count = AttemptedVolume(SubSeq(newNotification, 1, idx - 1))
    /\ hpc = "done" =>
          /\ count = AttemptedVolume(newNotification)
          /\ respCounts = count

\* C12 witness: a dispatch has returned a count that includes a topic and
\* the token of a notification whose send failed.
C12_Witness ==
    /\ hpc = "done"
    /\ \E i \in Positions :
          /\ outcome[i] = "error"
          /\ newNotification[i].to
          /\ Len(newNotification[i].tokens) = 1
    /\ respCounts >= 2

\* C13: a task whose send returned a generic error has released its unit
\* and has appended the entries the send produced.
C13_GenericErrorKeepsLogs ==
    \A i \in Indexes :
        (tstate[i] = "done" /\ outcome[i] = "error") =>
            /\ released[i] = 1
            /\ \A k \in 1..Len(newNotification[i].tokens) :
                   BagIn(SendLogs(newNotification[i], "error")[k], produced)

\* C14: a task whose send returned an "Unregistered" error returns nil,
\* appends the entries of the send and releases its unit once; the reclaims
\* started are exactly one per token of each such notification, none for a
\* send that succeeded or failed otherwise.
C14_UnregisteredSoftError ==
    /\ \A i \in Indexes :
          (tstate[i] = "done" /\ outcome[i] = "Unregistered") =>
              /\ tresult[i] = "nil"
              /\ released[i] = 1
              /\ \A k \in 1..Len(tresp[i]) : BagIn(tresp[i][k], produced)
              /\ Len(tresp[i]) = Len(newNotification[i].tokens)
    /\ \A t \in TokenSet :
          CopiesIn(t, reclaims) =
              Cardinality({ ik \in Indexes \X (1..MaxTokens) :
                              /\ outcome[ik[1]] = "Unregistered"
                              /\ ik[2] <= Len(newNotification[ik[1]].tokens)
                              /\ newNotification[ik[1]].tokens[ik[2]] = t })

\* C14 witness: two tasks with a token each have finished, one with an
\* "Unregistered" error and one with another error, and one reclaim runs.
C14_Witness ==
    /\ hpc = "done"
    /\ \E i, j \in Positions :
          /\ outcome[i] = "Unregistered" /\ tstate[i] = "done"
          /\ outcome[j] = "error" /\ tstate[j] = "done"
          /\ Len(newNotification[i].tokens) = 1
          /\ Len(newNotification[j].tokens) = 1
    /\ CopiesIn("a", reclaims) = 1

\* C17: a body that cannot be bound, is empty or is over the limit is
\* answered 400 and never dispatched: nothing is filtered, submitted or
\* logged and the stats are untouched; a bound body of 1 to the limit
\* notifications is never refused.
C17_ValidationGate ==
    LET bad == ~bindOk \/ Len(req) = 0 \/ Len(req) > MaxNotification
    IN /\ bad =>
            /\ hpc \in {"bind", "aborted"}
            /\ hpc = "aborted" => respCode = 400
            /\ newNotification = << >> /\ submitted = << >>
            /\ logs = << >> /\ produced = EmptyBag
            /\ statCalls = 0 /\ statTotal = 0
            /\ watcher = "none"
       /\ ~bad => (hpc # "aborted" /\ respCode # 400)

\* C17 witness: an over-limit body has been refused.
C17_Witness ==
    /\ bindOk
    /\ Len(req) = MaxNotification + 1
    /\ hpc = "aborted"
    /\ respCode = 400

\* C18: AddTotalCount is called exactly once by a dispatch that returns,
\* with the count it returns, and not before the barrier wait is over; it is
\* not called by a dispatch that has not returned.
C18_StatsSinkUpdate ==
    /\ statCalls = (IF hpc = "done" THEN 1 ELSE 0)
    /\ statTotal = (IF hpc = "done" THEN respCounts ELSE 0)
    /\ (hpc = "done" /\ cfgSync) =>
          (wg = 0 /\ \A i \in Indexes : released[i] = registered[i])

\* C18 witness: a sync dispatch has returned a count of at least 2.
C18_Witness ==
    /\ hpc = "done"
    /\ cfgSync
    /\ respCounts >= 2
    /\ statTotal = respCounts

\* C19: the configured sync flag is never changed by a dispatch.
C19_ConfigNeverMutated ==
    cfgSync = configuredSync

\* C20: a notification is dropped only when its platform is iOS, Android or
\* Huawei and that platform is disabled; one on any other platform is kept
\* whatever the flags are and, when the dispatch returns, has been submitted
\* and counted.
C20_OnlySwitchedDisabledDropped ==
    Started =>
        \A j \in 1..Len(req) :
            LET at == { p \in Positions : newNotification[p] = req[j] }
            IN /\ at = {} =>
                    /\ req[j].platform \in {"ios", "android", "huawei"}
                    /\ req[j].platform \notin enabled
               /\ req[j].platform \notin {"ios", "android", "huawei"} =>
                    /\ Cardinality(at) = 1
                    /\ hpc = "done" =>
                          /\ \A p \in at : \E m \in 1..Len(submitted) : submitted[m] = p
                          /\ respCounts >= Len(req[j].tokens) + (IF req[j].to THEN 1 ELSE 0)

\* C20 witness: with every platform disabled, a notification on another
\* platform has been submitted and counted by a dispatch that returned.
C20_Witness ==
    /\ hpc = "done"
    /\ enabled = {}
    /\ \E j \in 1..Len(req) : req[j].platform = "other" /\ req[j].to
    /\ \E j \in 1..Len(req) : req[j].platform # "other"
    /\ Len(submitted) >= 1
    /\ respCounts >= 1

\* C15 as stated: a reclaim makes at most 3 attempts, exactly 3 when no
\* attempt got a success status, and none after a success.
C15_RetryBound ==
    \A r \in Reclaimers :
        /\ rattempts[r] <= 3
        /\ (rstate[r] = "done" /\ rlast[r] # "ok") => rattempts[r] = 3
        /\ rlast[r] = "ok" => rstate[r] = "done"

\* C15 amended: a reclaim makes at most 3 attempts; when its DELETE request
\* could be created and every attempt failed it ends after exactly 3; when
\* the request could not be created it ends without any attempt; a success
\* ends it, and a reclaim that has ended makes no further attempt.
C15_RetryBoundAmended ==
    /\ [](\A r \in Reclaimers :
            /\ rattempts[r] <= 3
            /\ rstate[r] = "running" => rattempts[r] < 3
            /\ (rstate[r] = "done" /\ rlast[r] = "fail") => rattempts[r] = 3
            /\ (rstate[r] = "done" /\ rlast[r] = "badreq") => rattempts[r] = 0
            /\ rlast[r] = "ok" => (rstate[r] = "done" /\ rattempts[r] >= 1)
            /\ rlast[r] \in {"fail", "ok"} <=> rattempts[r] >= 1)
    /\ [][\A r \in Reclaimers :
            rstate[r] = "done" =>
                (rstate'[r] = "done" /\ rattempts'[r] = rattempts[r])]_vars

\* C15 witness: a reclaim has ended after three failed attempts.
C15_Witness ==
    \E r \in Reclaimers :
        rstate[r] = "done" /\ rlast[r] = "fail" /\ rattempts[r] = 3

\* A step of a deleteUnregisteredToken goroutine.
ReclaimerStepped ==
    \E r \in Reclaimers :
        /\ rstate[r] = "running"
        /\ rattempts'[r] # rattempts[r] \/ rstate'[r] # rstate[r]

\* C16: a reclaim blocks neither the task that started it (the task can
\* append and release whatever its reclaims do) nor the dispatch (it can
\* return as soon as the barrier allows), and no step of a reclaim changes
\* the count, the logs, the barrier or the response.
C16_ReclaimerDetached ==
    /\ [](\A i \in Indexes : tstate[i] = "appending" => ENABLED TaskAppend(i))
    /\ []((LoopFinished /\ (cfgSync => wg = 0)) => ENABLED WaitAndReturn)
    /\ [][ReclaimerStepped =>
            UNCHANGED << hpc, count, logs, wg, released, tstate, tresult,
                         statTotal, respCode, respCounts, respLogs >>]_vars

\* C16 witness: the dispatch has returned its count and logs while a reclaim
\* it started is between two attempts.
C16_Witness ==
    /\ hpc = "done"
    /\ respCounts >= 1
    /\ \E r \in Reclaimers :
          /\ rstate[r] = "running"
          /\ rattempts[r] >= 1
          /\ released[r[1]] = 1

====
